---- MODULE Spec2Model ----
(***************************************************************************)
(* A model of the yawe workflow engine: the sequential task loop of        *)
(* WorkflowEngine.run, the snapshot persistence of WorkflowStateManager    *)
(* (create_state, save_state, load_latest_failed_state, validate_state,    *)
(* cleanup_old_states), the flock-based run lock, and the command-line     *)
(* entry point that strings them together.                                 *)
(*                                                                         *)
(* Spec      one engine process at a time: a sequence of command-line      *)
(*           invocations (fresh, resume, named start), each of which may   *)
(*           be killed at any step, over one state directory.              *)
(***************************************************************************)
EXTENDS Integers, Sequences, FiniteSets, TLC

\* ------------------------------------------------------------------ bounds
MaxTasks == 2           \* longest task list of a configuration
MaxRuns == 2            \* command-line invocations in one behaviour
MaxFresh == 1           \* of which the first MaxFresh may start a new run
MaxWriteFailures == 1   \* save_state calls whose write raises, per behaviour
NumProcs == 2           \* processes contending for the run lock
MaxInodes == 2          \* lock files ever created in one behaviour
MaxLen == 3             \* longest argument list of a pure function
MaxFiles == 3           \* snapshot files in a state directory given to a function
MaxRetries == 3         \* largest max_retries given to execute_with_retry

\* ------------------------------------------------------- program constants
STATE_VERSION == "1.0"
Registry == {"command", "transfer"}
TaskNames == <<"A", "B", "C", "D">>
DefaultNames == <<"task_1", "task_2", "task_3", "task_4">>   \* f'task_{idx}'
NoName == ""            \* the task has no name key
NoTime == 0             \* None in start_time / end_time
DefaultHash == 0        \* "00000000", returned when the file cannot be read
DefaultConfigFile == "config.yaml"

VARIABLES
    config,             \* the configuration file in use: content id, workflow section
    now,                \* the clock, in the seconds datetime.now() is formatted to
    runs,               \* invocations started so far
    disk,               \* the state directory: file name -> content
    mode,               \* how the last invocation was started
    from_task,          \* engine: self.from_task, NoName when not given
    notifier,           \* engine: self.notifier is set (context['notifier'])
    pc,                 \* position of the running process, "idle" when none runs
    cont,               \* where control goes after the save_state in progress
    idx,                \* loop variable of run(), 1-based
    resume_from_index,  \* run(): resume_from_index
    current_state,      \* engine: self.current_state
    workflow_context,   \* engine: self.workflow_context
    failed_tasks,       \* engine: self.failed_tasks (names)
    executed_tasks,     \* engine: self.executed_tasks
    skipped_tasks,      \* engine: self.skipped_tasks
    invoked,            \* indexes whose execute() was called in this run
    call_log,           \* the calls this run made on tasks, in order, with their results
    loaded,             \* the snapshot as load_latest_failed_state returned it
    outcome,            \* what the last invocation reported
    exit_code,          \* sys.exit argument of the last invocation
    crashed,            \* state file of a run killed inside its loop, else NoFile
    stale,              \* the last save_state of this run failed to write
    write_failures,     \* failed writes so far
    \* the run lock, one entry per process where a function
    lock_file,          \* inode linked at LOCK_FILE, 0 when the path does not exist
    file_content,       \* inode -> what the file holds (a pid, 0 when empty)
    flock_holder,       \* inode -> process whose descriptor holds LOCK_EX, 0 when free
    inodes_used,        \* inodes created so far
    lock_fd,            \* process -> inode of self.lock_fd, 0 for None
    ppc,                \* process -> position in main() / acquire_lock / release_lock
    believes,           \* process -> acquire_lock returned True, release_lock not yet called
    last_touch,         \* who last created, overwrote or removed a snapshot, and whether it held the lock
    last_exit,          \* process -> how its last main() ended
    \* pure functions
    fn_input,           \* the argument
    fn_result           \* the value returned, NoResult before the call

vars == <<config, now, runs, disk, mode, from_task, notifier, pc, cont, idx, resume_from_index,
          current_state, workflow_context, failed_tasks, executed_tasks,
          skipped_tasks, invoked, call_log, loaded, outcome, exit_code, crashed,
          stale, write_failures, lock_file, file_content, flock_holder,
          inodes_used, lock_fd, ppc, believes, last_touch, last_exit,
          fn_input, fn_result>>

lock_vars == <<lock_file, file_content, flock_holder, inodes_used, lock_fd, ppc,
               believes, last_touch, last_exit>>

fn_vars == <<fn_input, fn_result>>

memory_vars == <<resume_from_index, current_state, workflow_context,
                 failed_tasks, executed_tasks, skipped_tasks, invoked, call_log,
                 loaded>>

\* ------------------------------------------------------------ values
NoState == [version |-> "none"]
NoFile == [ext |-> "none"]
Torn == [version |-> "torn"]        \* a partially written JSON document
EmptyDict == <<>>

IsSnapshot(c) == c # Torn /\ c # NoState

\* ------------------------------------------------------------ configuration
\* One task of the workflow section.  type "" stands for a missing type key.
TaskKinds ==
    { [type |-> "command", enabled |-> TRUE,  fail_on_error |-> TRUE],
      [type |-> "command", enabled |-> TRUE,  fail_on_error |-> FALSE],
      [type |-> "command", enabled |-> FALSE, fail_on_error |-> TRUE],
      [type |-> "",        enabled |-> TRUE,  fail_on_error |-> FALSE],
      [type |-> "bogus",   enabled |-> TRUE,  fail_on_error |-> TRUE] }

TaskConfig(i, k) ==
    [name |-> TaskNames[i], type |-> k.type, enabled |-> k.enabled,
     fail_on_error |-> k.fail_on_error]

\* A file content, named by its md5 digest: the first 8 hex digits and the other
\* 24.  Two contents with the same first 8 digits are a colliding pair.
Content(head, tail) == [head |-> head, tail |-> tail]

Runnable == [type |-> "command", enabled |-> TRUE, fail_on_error |-> TRUE]

\* Task lists whose names are not TaskNames[i]: the same name given twice, a name
\* that equals the default name of another task, and no names at all.
NameLists ==
    { <<[TaskConfig(1, Runnable) EXCEPT !.name = n[1]],
        [TaskConfig(2, Runnable) EXCEPT !.name = n[2]]>>
      : n \in { <<TaskNames[1], TaskNames[1]>>,
                <<DefaultNames[2], NoName>>,
                <<NoName, NoName>> } }

TaskLists ==
    UNION { { [i \in 1..n |-> TaskConfig(i, ks[i])] : ks \in [1..n -> TaskKinds] }
            : n \in 0..MaxTasks }
      \cup NameLists

\* A configuration: the path given with --config, the files of the working
\* directory (path -> content), and the workflow section of the file in use.
Configs ==
    { [path |-> DefaultConfigFile,
       files |-> (DefaultConfigFile :> Content(1, 1)),
       workflow |-> [tasks |-> ts, settings |-> [stop_on_first_error |-> s]]]
      : ts \in TaskLists, s \in BOOLEAN }

tasks_config == config.workflow.tasks
stop_on_error == config.workflow.settings.stop_on_first_error
NTasks == Len(tasks_config)

\* task_config.get('name', f'task_{idx}')
TaskName(task_config, i) ==
    IF task_config.name = NoName THEN DefaultNames[i] ELSE task_config.name

\* hashlib.md5(content).hexdigest()[:8]
Md5Prefix(content) == content.head

\* The file hashed is self.config_file = getattr(config, 'config_file',
\* 'config.yaml'); Config has no attribute config_file (it has config_path), so
\* this is always config.yaml of the working directory, whatever --config names.
calculate_config_hash(cfg) ==
    IF DefaultConfigFile \in DOMAIN cfg.files
    THEN Md5Prefix(cfg.files[DefaultConfigFile])
    ELSE DefaultHash

\* Variant: the names are not compared.
HasDuplicateNames_never(ts) == FALSE

HasDuplicateNames(ts) ==
    \E i, j \in 1..Len(ts) : i < j /\ TaskName(ts[i], i) = TaskName(ts[j], j)

\* ------------------------------------------------------------ state manager
\* Variant: the TaskStates are built in the reverse of the declaration order.
create_state_reversed(cfg, run_id, t) ==
    [version |-> STATE_VERSION,
     metadata |-> [config_hash |-> calculate_config_hash(cfg),
                   run_id |-> run_id,
                   start_time |-> t,
                   last_update |-> t,
                   workflow_status |-> "running",
                   stop_on_first_error |-> cfg.workflow.settings.stop_on_first_error,
                   total_tasks |-> Len(cfg.workflow.tasks)],
     tasks |-> [i \in 1..Len(cfg.workflow.tasks) |->
                  LET j == Len(cfg.workflow.tasks) + 1 - i
                  IN  [name |-> TaskName(cfg.workflow.tasks[j], j),
                       type |-> IF cfg.workflow.tasks[j].type = "" THEN "unknown"
                                ELSE cfg.workflow.tasks[j].type,
                       status |-> "pending",
                       start_time |-> NoTime,
                       end_time |-> NoTime,
                       message |-> "",
                       exported_context |-> EmptyDict]],
     workflow_context |-> EmptyDict]

create_state(cfg, run_id, t) ==
    [version |-> STATE_VERSION,
     metadata |-> [config_hash |-> calculate_config_hash(cfg),
                   run_id |-> run_id,
                   start_time |-> t,
                   last_update |-> t,
                   workflow_status |-> "running",
                   stop_on_first_error |-> cfg.workflow.settings.stop_on_first_error,
                   total_tasks |-> Len(cfg.workflow.tasks)],
     tasks |-> [i \in 1..Len(cfg.workflow.tasks) |->
                  [name |-> TaskName(cfg.workflow.tasks[i], i),
                   type |-> IF cfg.workflow.tasks[i].type = "" THEN "unknown"
                            ELSE cfg.workflow.tasks[i].type,
                   status |-> "pending",
                   start_time |-> NoTime,
                   end_time |-> NoTime,
                   message |-> "",
                   exported_context |-> EmptyDict]],
     workflow_context |-> EmptyDict]

_get_state_file_path(metadata) ==
    [config_hash |-> metadata.config_hash, run_id |-> metadata.run_id, ext |-> "json"]

\* Variant: the state is dumped straight into the canonical path.
TempFile_inPlace(state_file) == state_file

TempFile(state_file) == [state_file EXCEPT !.ext = "json.tmp"]

\* glob.glob("workflow_state_*.json"): the names the pattern matches.
GlobStateFiles(d) == { f \in DOMAIN d : f.ext = "json" }

WriteFile(d, f, c) == (f :> c) @@ d
RemoveFile(d, f) == [g \in (DOMAIN d) \ {f} |-> d[g]]
RenameFile(d, src, dst) == WriteFile(RemoveFile(d, src), dst, d[src])

Touch(state, t) == [state EXCEPT !.metadata.last_update = t]


\* save_state, first half: stamp last_update, dump the state to the temporary file.
\* The stamp is an assignment to the caller's dictionary, so it stays in memory.
WriteTemp(d, state) == WriteFile(d, TempFile(_get_state_file_path(state.metadata)), state)

\* Variant: the rename is left out.
RenameTemp_noop(d, state) == d

\* save_state, second half: os.rename(temp_file, state_file).
RenameTemp(d, state) ==
    RenameFile(d, TempFile(_get_state_file_path(state.metadata)),
               _get_state_file_path(state.metadata))

\* load_latest_failed_state: the files it may return.  The sort is on last_update
\* alone and glob's order is arbitrary, so files that tie are all possible.
FailedStateFiles(d) ==
    { f \in GlobStateFiles(d) :
        /\ IsSnapshot(d[f])
        /\ d[f].metadata.workflow_status \in {"failed", "interrupted"} }

\* Line 171: the sort compares the last_update keys of the files kept.  A key
\* that is null (None after json.load) cannot be compared with another key; the
\* TypeError is raised outside the per-file try and caught at line 177.
SortRaises(d) ==
    /\ Cardinality(FailedStateFiles(d)) > 1
    /\ \E f \in FailedStateFiles(d) : d[f].metadata.last_update = NoTime

load_latest_failed_state(d) ==
    IF SortRaises(d) THEN {}
    ELSE { f \in FailedStateFiles(d) :
             \A g \in FailedStateFiles(d) :
                 d[g].metadata.last_update <= d[f].metadata.last_update }

required_fields == <<"config_hash", "run_id", "start_time">>

\* Variant: no required field is looked for.
MissingField_none(metadata, k) == ""

\* The first required field the metadata lacks, "" when it has them all.
RECURSIVE MissingField(_, _)
MissingField(metadata, k) ==
    IF k > Len(required_fields) THEN ""
    ELSE IF required_fields[k] \notin DOMAIN metadata THEN required_fields[k]
    ELSE MissingField(metadata, k + 1)

Verdict(valid, kind, values) == [valid |-> valid, kind |-> kind, values |-> values]

\* validate_state: (valid, message); the message is its kind and the values
\* interpolated into its text.  state.get('version') is None without the key.
validate_state(state, force, cfg) ==
    IF "version" \notin DOMAIN state THEN Verdict(FALSE, "version", <<STATE_VERSION>>)
    ELSE IF state.version # STATE_VERSION
    THEN Verdict(FALSE, "version", <<state.version, STATE_VERSION>>)
    ELSE IF "metadata" \notin DOMAIN state \/ "tasks" \notin DOMAIN state
    THEN Verdict(FALSE, "missing", <<>>)
    ELSE IF MissingField(state.metadata, 1) # ""
    THEN Verdict(FALSE, "missing_field", <<MissingField(state.metadata, 1)>>)
    ELSE IF ~force /\ calculate_config_hash(cfg) # state.metadata.config_hash
    THEN Verdict(FALSE, "config_hash",
                 <<state.metadata.config_hash, calculate_config_hash(cfg)>>)
    ELSE Verdict(TRUE, "", <<>>)

\* ------------------------------------------------------------ engine helpers
\* Variant: a pending task is not taken for a resume point.
RECURSIVE ScanResumePoint_skipsPending(_, _)
ScanResumePoint_skipsPending(tasks, i) ==
    IF i > Len(tasks) THEN 1
    ELSE IF tasks[i].status \in {"failed", "running"} THEN i
    ELSE ScanResumePoint_skipsPending(tasks, i + 1)

RECURSIVE ScanResumePoint(_, _)
ScanResumePoint(tasks, i) ==
    IF i > Len(tasks) THEN 1
    ELSE IF tasks[i].status \in {"failed", "running", "pending"} THEN i
    ELSE ScanResumePoint(tasks, i + 1)

_find_resume_point(state) == ScanResumePoint(state.tasks, 1)

RECURSIVE ScanTaskIndex(_, _, _)
ScanTaskIndex(task_name, ts, i) ==
    IF i > Len(ts) THEN -1
    ELSE IF TaskName(ts[i], i) = task_name THEN i
    ELSE ScanTaskIndex(task_name, ts, i + 1)

\* Variant: a name no task has starts the run at the first task.
_find_task_index_orFirst(task_name, ts) ==
    IF ScanTaskIndex(task_name, ts, 1) = -1 THEN 1 ELSE ScanTaskIndex(task_name, ts, 1)

_find_task_index(task_name, ts) == ScanTaskIndex(task_name, ts, 1)

\* Variant: the 1-based loop index is used where the 0-based one is meant.
_update_task_state_offByOne(state, i, status, message, exported_vars, t) ==
    IF i + 1 > Len(state.tasks) THEN state
    ELSE [state EXCEPT
            !.tasks[i + 1].status = status,
            !.tasks[i + 1].message = message,
            !.tasks[i + 1].start_time = IF status = "running" THEN t ELSE @,
            !.tasks[i + 1].end_time = IF status = "running" THEN @ ELSE t,
            !.tasks[i + 1].exported_context =
                IF DOMAIN exported_vars # {} THEN exported_vars ELSE @,
            !.metadata.last_update = t]

\* _update_task_state, with task_index 1-based here.
_update_task_state(state, i, status, message, exported_vars, t) ==
    IF i > Len(state.tasks) THEN state
    ELSE [state EXCEPT
            !.tasks[i].status = status,
            !.tasks[i].message = message,
            !.tasks[i].start_time = IF status = "running" THEN t ELSE @,
            !.tasks[i].end_time = IF status = "running" THEN @ ELSE t,
            !.tasks[i].exported_context =
                IF DOMAIN exported_vars # {} THEN exported_vars ELSE @,
            !.metadata.last_update = t]

\* Variant: the exported variables are written into every namespace.
MergeExports_shared(wc, name, exported_vars) ==
    IF DOMAIN exported_vars = {} THEN wc
    ELSE [n \in (DOMAIN wc) \cup {name} |->
             exported_vars @@ (IF n \in DOMAIN wc THEN wc[n] ELSE EmptyDict)]

\* Lines 165-169 of run(): merge the exported variables under the task's name.
MergeExports(wc, name, exported_vars) ==
    IF DOMAIN exported_vars = {} THEN wc
    ELSE (name :> (exported_vars @@
                   (IF name \in DOMAIN wc THEN wc[name] ELSE EmptyDict))) @@ wc

\* TaskFactory.create raises for a type tag that is not registered.
FactoryRaises(task_type) == task_type \notin Registry

\* What create + execute + export_context can do for one task.
ExecOutcomes == {"ok_vars", "ok_empty", "ok_export_raises", "fail", "raise"}

ExportedVars(outc, name) ==
    IF outc = "ok_vars" THEN ("path" :> <<name, runs>>) ELSE EmptyDict

Call(i, op, result) == [task |-> i, op |-> op, result |-> result]

\* Variant: an exception of export_context makes the task a failed one.
ExecuteSucceeded_exportStrict(outc) == outc \in {"ok_vars", "ok_empty"}

\* Lines 151-174: execute returned success; an exception of export_context is
\* caught by the inner try and leaves the task successful.
ExecuteSucceeded(outc) == outc \in {"ok_vars", "ok_empty", "ok_export_raises"}

\* task_config.get(flag, False)
NotifyFlag(task_config, flag) ==
    IF flag \in DOMAIN task_config THEN task_config[flag] ELSE FALSE

\* Lines 184, 196, 216: the notification is sent if the task asks for it and the
\* engine has a notifier.
NotifyDispatched(task_config, success) ==
    /\ NotifyFlag(task_config, IF success THEN "notify_on_success" ELSE "notify_on_failure")
    /\ notifier

\* What the notifier can do with one message.
NotifyOutcomes == {"sent", "raises"}

\* Variant: an exception of the notifier leaves _send_notification.
_send_notification_propagates(notify_outc) == notify_outc = "raises"

\* _send_notification raises: never, its body is one try / except Exception
\* (lines 247-270).
_send_notification_raises(notify_outc) == FALSE

\* The call of lines 185, 197, 217, when it is made.
NotifyCalls(i, task_config, success, notify_outc) ==
    IF NotifyDispatched(task_config, success)
    THEN <<Call(i, IF success THEN "send_success" ELSE "send_failure",
                IF notify_outc = "raises" THEN "exception" ELSE "success")>>
    ELSE <<>>

\* Variant: export_context is called whatever execute returned.
CallsOf_exportsAlways(i, task_type, outc) ==
    IF FactoryRaises(task_type) THEN <<Call(i, "create", "exception")>>
    ELSE <<Call(i, "execute", IF outc = "raise" THEN "exception"
                              ELSE IF outc = "fail" THEN "failure" ELSE "success"),
           Call(i, "export_context", "success")>>

\* The calls of lines 150-161 for one task: TaskFactory.create, execute if the
\* task was constructed, export_context if execute returned success.
CallsOf(i, task_type, outc) ==
    IF FactoryRaises(task_type) THEN <<Call(i, "create", "exception")>>
    ELSE IF outc = "raise" THEN <<Call(i, "execute", "exception")>>
    ELSE IF outc = "fail" THEN <<Call(i, "execute", "failure")>>
    ELSE <<Call(i, "execute", "success"),
           Call(i, "export_context",
                IF outc = "ok_export_raises" THEN "exception" ELSE "success")>>

\* Variant: the run is always reported successful.
final_status_alwaysSuccess(n) == "success"

\* Line 227: the final workflow status, from the number of failed tasks.
final_status(n) == IF n = 0 THEN "success" ELSE "failed"

\* Variant: every failure stops the loop.
AbortAfterFailure_always(task_config) == TRUE

\* The abort decision of lines 200-203 and 220-223.
AbortAfterFailure(task_config) == task_config.fail_on_error /\ stop_on_error

\* The abort decision of lines 132-134 (no type tag).
AbortAfterMissingType(task_config) == stop_on_error

\* Variant: a disabled task is run like the others.
SkipDisabled_never(task_config) == FALSE

\* Line 124: the task is disabled.
SkipDisabled(task_config) == ~task_config.enabled

\* Variant: nothing is skipped on resume.
SkipBeforeStart_never(i) == FALSE

\* Line 117: the task lies before the resume point or the named start.
SkipBeforeStart(i) == mode \in {"resume", "from_task"} /\ i < resume_from_index

\* Control after the body of the for loop: "next" is the loop's next iteration.
Goto(c) ==
    /\ pc' = IF c = "next" THEN (IF idx < NTasks THEN "loop" ELSE "final") ELSE c
    /\ idx' = IF c = "next" /\ idx < NTasks THEN idx + 1 ELSE idx

StateFile == 
    IF current_state = NoState THEN NoFile
    ELSE _get_state_file_path(current_state.metadata)


\* ------------------------------------------------------------ the process
\* No process: everything the engine held in memory is gone.
ProcessGone ==
    /\ pc' = "idle"
    /\ cont' = "none"
    /\ idx' = 0
    /\ resume_from_index' = 0
    /\ current_state' = NoState
    /\ workflow_context' = EmptyDict
    /\ failed_tasks' = <<>>
    /\ executed_tasks' = <<>>
    /\ skipped_tasks' = <<>>
    /\ invoked' = {}
    /\ call_log' = <<>>
    /\ loaded' = NoState
    /\ stale' = FALSE

\* An invocation that ends before the loop, with `code` and nothing run.
EndEarly(what, code) ==
    /\ ProcessGone
    /\ outcome' = what
    /\ exit_code' = code
    /\ UNCHANGED disk

\* The clock between two invocations: the same second, or a later one.
Ticks == IF runs = 0 THEN {1} ELSE {0, 1}

Launch(m, t, name) ==
    /\ pc = "idle"
    /\ runs < MaxRuns
    /\ runs' = runs + 1
    /\ now' = t
    /\ mode' = m
    /\ from_task' = name
    /\ crashed' = NoFile
    /\ UNCHANGED <<config, notifier, write_failures, lock_vars, fn_vars>>

\* main() without -r and --from-task, then run() up to the loop (lines 56-108).
StartFresh ==
    \E tick \in Ticks :
        /\ runs < MaxFresh
        /\ Launch("fresh", now + tick, NoName)
        /\ IF NTasks = 0
           THEN EndEarly("no_tasks", 0)
           ELSE IF HasDuplicateNames(tasks_config)
           THEN EndEarly("duplicate_names", 1)
           ELSE /\ current_state' = create_state(config, now + tick, now + tick)
                /\ pc' = "save"
                /\ cont' = "loop"
                /\ idx' = 1
                /\ resume_from_index' = 0
                /\ workflow_context' = EmptyDict
                /\ failed_tasks' = <<>>
                /\ executed_tasks' = <<>>
                /\ skipped_tasks' = <<>>
                /\ invoked' = {}
                /\ call_log' = <<>>
                /\ loaded' = NoState
                /\ stale' = FALSE
                /\ outcome' = "running"
                /\ UNCHANGED <<disk, exit_code>>

\* The names --from-task is given: those of the tasks, one no task has, and the
\* default name of the second task.
GivenNames == {TaskNames[i] : i \in 1..(MaxTasks + 1)} \cup {DefaultNames[2]}

\* main() with --from-task, then run() up to the loop (lines 82-99).
StartFromTask ==
    \E tick \in Ticks, name \in GivenNames :
        /\ runs < MaxFresh
        /\ Launch("from_task", now + tick, name)
        /\ IF NTasks = 0
           THEN EndEarly("no_tasks", 0)
           ELSE IF HasDuplicateNames(tasks_config)
           THEN EndEarly("duplicate_names", 1)
           ELSE IF _find_task_index(name, tasks_config) = -1
           THEN EndEarly("task_not_found", 1)
           ELSE /\ current_state' = create_state(config, now + tick, now + tick)
                /\ pc' = "save"
                /\ cont' = "loop"
                /\ idx' = 1
                /\ resume_from_index' = _find_task_index(name, tasks_config)
                /\ workflow_context' = EmptyDict
                /\ failed_tasks' = <<>>
                /\ executed_tasks' = <<>>
                /\ skipped_tasks' = <<>>
                /\ invoked' = {}
                /\ call_log' = <<>>
                /\ loaded' = NoState
                /\ stale' = FALSE
                /\ outcome' = "running"
                /\ UNCHANGED <<disk, exit_code>>

\* main() with -r, with or without --force: load, validate, then run() up to the
\* loop (lines 76-81).
StartResume ==
    \E tick \in Ticks, force \in BOOLEAN :
        /\ Launch("resume", now + tick, NoName)
        /\ IF load_latest_failed_state(disk) = {}
           THEN EndEarly("no_resumable_state", 1)
           ELSE \E f \in load_latest_failed_state(disk) :
                  IF ~validate_state(disk[f], force, config).valid
                  THEN EndEarly("invalid_state", 1)
                  ELSE IF NTasks = 0
                  THEN EndEarly("no_tasks", 0)
                  ELSE IF HasDuplicateNames(tasks_config)
                  THEN EndEarly("duplicate_names", 1)
                  ELSE /\ current_state' = disk[f]
                       /\ loaded' = disk[f]
                       /\ workflow_context' = disk[f].workflow_context
                       /\ resume_from_index' = _find_resume_point(disk[f])
                       /\ pc' = "loop"
                       /\ cont' = "none"
                       /\ idx' = 1
                       /\ failed_tasks' = <<>>
                       /\ executed_tasks' = <<>>
                       /\ skipped_tasks' = <<>>
                       /\ invoked' = {}
                       /\ call_log' = <<>>
                       /\ stale' = FALSE
                       /\ outcome' = "running"
                       /\ UNCHANGED <<disk, exit_code>>


\* One iteration of the for loop up to the save of the running transition
\* (lines 111-146): skip, fail for a missing type tag, or mark the task running.
LoopStep ==
    /\ pc = "loop"
    /\ LET task_config == tasks_config[idx]
           name == TaskName(task_config, idx)
       IN  IF SkipBeforeStart(idx)
           THEN /\ skipped_tasks' = Append(skipped_tasks, name)
                /\ Goto("next")
                /\ UNCHANGED <<current_state, failed_tasks, cont, call_log>>
           ELSE IF SkipDisabled(task_config)
           THEN /\ skipped_tasks' = Append(skipped_tasks, name)
                /\ Goto("next")
                /\ UNCHANGED <<current_state, failed_tasks, cont, call_log>>
           ELSE IF task_config.type = ""
           THEN /\ failed_tasks' = Append(failed_tasks, name)
                /\ call_log' = Append(call_log, Call(idx, "no_type", "failure"))
                /\ Goto(IF AbortAfterMissingType(task_config) THEN "final" ELSE "next")
                /\ UNCHANGED <<current_state, skipped_tasks, cont>>
           ELSE /\ current_state' =
                      _update_task_state(current_state, idx, "running", "", EmptyDict, now)
                /\ pc' = "save"
                /\ cont' = "exec"
                /\ UNCHANGED <<idx, failed_tasks, skipped_tasks, call_log>>
    /\ UNCHANGED <<config, now, runs, disk, mode, from_task, notifier, resume_from_index, workflow_context,
                   executed_tasks, invoked, loaded, outcome, exit_code, crashed,
                   stale, write_failures>>
    /\ UNCHANGED <<lock_vars, fn_vars>>

\* TaskFactory.create, execute, export_context and the transition they lead to
\* (lines 148-223), up to the save of that transition.
Execute ==
    /\ pc = "exec"
    /\ \E outc \in ExecOutcomes, notify_outc \in NotifyOutcomes :
        LET task_config == tasks_config[idx]
            name == TaskName(task_config, idx)
            returned == ~FactoryRaises(task_config.type) /\ outc # "raise"
            reported == returned /\ ExecuteSucceeded(outc)
            \* an exception leaving line 185 is caught at line 205, after the
            \* success was saved: the task ends as a failed one
            escapes == /\ NotifyDispatched(task_config, reported)
                       /\ _send_notification_raises(notify_outc)
            raised == ~returned \/ (reported /\ escapes)
            success == reported /\ ~escapes
            exported_vars == ExportedVars(outc, name)
            message == IF FactoryRaises(task_config.type) THEN "unknown task type"
                       ELSE IF raised THEN "exception"
                       ELSE IF success THEN "done" ELSE "error"
        IN  /\ NotifyDispatched(task_config, reported) \/ notify_outc = "sent"
            /\ invoked' = IF FactoryRaises(task_config.type) THEN invoked
                          ELSE invoked \cup {idx}
            /\ call_log' = call_log \o CallsOf(idx, task_config.type, outc)
                                   \o NotifyCalls(idx, task_config, reported, notify_outc)
            /\ executed_tasks' = IF returned THEN Append(executed_tasks, name)
                                 ELSE executed_tasks
            /\ IF success
               THEN /\ workflow_context' = MergeExports(workflow_context, name, exported_vars)
                    /\ current_state' =
                          [_update_task_state(current_state, idx, "success", message,
                                              exported_vars, now)
                             EXCEPT !.workflow_context =
                                      MergeExports(workflow_context, name, exported_vars)]
                    /\ cont' = "next"
                    /\ UNCHANGED failed_tasks
               ELSE /\ failed_tasks' = Append(failed_tasks, name)
                    /\ current_state' =
                          _update_task_state(current_state, idx, "failed", message,
                                             EmptyDict, now)
                    /\ cont' = IF AbortAfterFailure(task_config) THEN "final" ELSE "next"
                    /\ UNCHANGED workflow_context
            /\ pc' = "save"
    /\ UNCHANGED <<config, now, runs, disk, mode, from_task, notifier, idx, resume_from_index, skipped_tasks,
                   loaded, outcome, exit_code, crashed, stale, write_failures>>
    /\ UNCHANGED <<lock_vars, fn_vars>>

\* Lines 225-229: the final workflow status, up to its save.
Finish ==
    /\ pc = "final"
    /\ current_state' =
          [current_state EXCEPT !.metadata.workflow_status =
              final_status(Len(failed_tasks))]
    /\ pc' = "save"
    /\ cont' = "exit"
    /\ UNCHANGED <<config, now, runs, disk, mode, from_task, notifier, idx, resume_from_index,
                   workflow_context, failed_tasks, executed_tasks, skipped_tasks,
                   invoked, call_log, loaded, outcome, exit_code, crashed, stale, write_failures>>
    /\ UNCHANGED <<lock_vars, fn_vars>>

\* save_state lines 110-121: last_update is stamped and the temporary file written.
SaveWriteTemp ==
    /\ pc = "save"
    /\ current_state' = Touch(current_state, now)
    /\ disk' = WriteTemp(disk, Touch(current_state, now))
    /\ pc' = "rename"
    /\ UNCHANGED <<config, now, runs, mode, from_task, notifier, cont, idx, resume_from_index,
                   workflow_context, failed_tasks, executed_tasks, skipped_tasks,
                   invoked, call_log, loaded, outcome, exit_code, crashed, stale, write_failures>>
    /\ UNCHANGED <<lock_vars, fn_vars>>

\* save_state line 124: the rename, after which save_state returns.
SaveRename ==
    /\ pc = "rename"
    /\ disk' = RenameTemp(disk, current_state)
    /\ Goto(cont)
    /\ cont' = "none"
    /\ stale' = FALSE
    /\ UNCHANGED <<config, now, runs, mode, from_task, notifier, resume_from_index, current_state,
                   workflow_context, failed_tasks, executed_tasks, skipped_tasks,
                   invoked, call_log, loaded, outcome, exit_code, crashed, write_failures>>
    /\ UNCHANGED <<lock_vars, fn_vars>>

\* Variant: the exception of a failed write leaves save_state and run().
AfterFailedSave_raises(c) == "exit"

\* Lines 128-129: the exception is logged and save_state returns; the caller
\* goes on where it would after a save that wrote the file.
AfterFailedSave(c) == c

\* save_state lines 128-129: the write or the rename raises; logged, not raised.
\* A write that fails after open() leaves a torn temporary file.
SaveFails ==
    /\ pc \in {"save", "rename"}
    /\ write_failures < MaxWriteFailures
    /\ write_failures' = write_failures + 1
    /\ current_state' = Touch(current_state, now)
    /\ \E torn \in BOOLEAN :
          disk' = IF pc = "save" /\ torn
                  THEN WriteFile(disk, TempFile(StateFile), Torn)
                  ELSE disk
    /\ Goto(AfterFailedSave(cont))
    /\ cont' = "none"
    /\ stale' = TRUE
    /\ UNCHANGED <<config, now, runs, mode, from_task, notifier, resume_from_index,
                   workflow_context, failed_tasks, executed_tasks, skipped_tasks,
                   invoked, call_log, loaded, outcome, exit_code, crashed>>
    /\ UNCHANGED <<lock_vars, fn_vars>>

\* run() returns len(failed_tasks); main() exits with it (lines 163-173).
Exit ==
    /\ pc = "exit"
    /\ ProcessGone
    /\ outcome' = "completed"
    /\ exit_code' = Len(failed_tasks)
    /\ UNCHANGED <<config, now, runs, disk, mode, from_task, notifier, crashed, write_failures>>
    /\ UNCHANGED <<lock_vars, fn_vars>>

\* The process is killed or interrupted inside run().  Killed while the temporary
\* file is being written, it may leave that file torn.
InLoop ==
    \/ pc \in {"loop", "exec"}
    \/ pc \in {"save", "rename"} /\ cont \in {"exec", "next", "final"}

Crash ==
    /\ pc # "idle"
    /\ \E torn \in BOOLEAN :
          disk' = IF pc = "save" /\ torn
                  THEN WriteFile(disk, TempFile(StateFile), Torn)
                  ELSE disk
    /\ crashed' = IF InLoop /\ ~stale /\ StateFile \in GlobStateFiles(disk)
                  THEN StateFile ELSE NoFile
    /\ ProcessGone
    /\ outcome' = "interrupted"
    /\ exit_code' = 130
    /\ UNCHANGED <<config, now, runs, mode, from_task, notifier, write_failures>>
    /\ UNCHANGED <<lock_vars, fn_vars>>

\* The engine before its first invocation, under one of the configurations
\* `configs`, with or without a notifier in its context.
EngineInitIn(configs, notifiers) ==
    /\ config \in configs
    /\ now = 0
    /\ runs = 0
    /\ disk = <<>>
    /\ mode = "none"
    /\ from_task = NoName
    /\ notifier \in notifiers
    /\ pc = "idle"
    /\ cont = "none"
    /\ idx = 0
    /\ resume_from_index = 0
    /\ current_state = NoState
    /\ workflow_context = EmptyDict
    /\ failed_tasks = <<>>
    /\ executed_tasks = <<>>
    /\ skipped_tasks = <<>>
    /\ invoked = {}
    /\ call_log = <<>>
    /\ loaded = NoState
    /\ outcome = "none"
    /\ exit_code = 0
    /\ crashed = NoFile
    /\ stale = FALSE
    /\ write_failures = 0

\* cli.py builds the context without a notifier (lines 138-143).
EngineInit == EngineInitIn(Configs, {FALSE})

\* No lock traffic and no function call: the part of the state Spec leaves alone.
LockIdle ==
    /\ lock_file = 0
    /\ file_content = <<>>
    /\ flock_holder = <<>>
    /\ inodes_used = 0
    /\ lock_fd = <<>>
    /\ ppc = <<>>
    /\ believes = <<>>
    /\ last_touch = [by |-> 0, held |-> TRUE]
    /\ last_exit = <<>>

FnIdle ==
    /\ fn_input = <<>>
    /\ fn_result = <<>>

Init == EngineInit /\ LockIdle /\ FnIdle

Next ==
    \/ StartFresh
    \/ StartFromTask
    \/ StartResume
    \/ LoopStep
    \/ Execute
    \/ Finish
    \/ SaveWriteTemp
    \/ SaveRename
    \/ SaveFails
    \/ Exit
    \/ Crash

Spec == Init /\ [][Next]_vars


(***************************************************************************)
(* LockSpec: NumProcs processes over one state directory.  Each runs       *)
(* main(): --clean-state, or acquire_lock, the engine's saves and          *)
(* release_lock; a caller of the bare API may also call release_lock after *)
(* acquire_lock returned False.  flock locks belong to an open file        *)
(* description and follow the inode, not the path.  A process can be       *)
(* interrupted (KeyboardInterrupt) or killed at any position.              *)
(***************************************************************************)
Procs == 1..NumProcs
Inodes == 1..MaxInodes

older_than_days == 30
DaySeconds == 24 * 3600

\* File modification time: save_state stamps last_update in the second it writes.
getmtime(d, f) == d[f].metadata.last_update

\* Variant: the age alone decides, whatever the status.
CleanupRemoves_anyStatus(d, current_time, days) ==
    { f \in GlobStateFiles(d) :
        IsSnapshot(d[f]) /\ d[f].metadata.last_update < current_time - days * DaySeconds }

\* cleanup_old_states: the files it removes, and the directory it leaves.
CleanupRemoves(d, current_time, days) ==
    { f \in GlobStateFiles(d) :
        /\ IsSnapshot(d[f])
        /\ d[f].metadata.workflow_status = "success"
        /\ getmtime(d, f) < current_time - days * DaySeconds }

cleanup_old_states(d, current_time, days) ==
    [f \in (DOMAIN d) \ CleanupRemoves(d, current_time, days) |-> d[f]]

\* The directory the processes start with: an old successful run, a failed one.
LockConfig ==
    [path |-> DefaultConfigFile,
     files |-> (DefaultConfigFile :> Content(1, 1)),
     workflow |-> [tasks |-> <<TaskConfig(1, [type |-> "command", enabled |-> TRUE,
                                               fail_on_error |-> TRUE])>>,
                   settings |-> [stop_on_first_error |-> TRUE]]]

LockNow == older_than_days * DaySeconds + 2

OldStateDir ==
    LET ok == [create_state(LockConfig, 1, 1) EXCEPT !.metadata.workflow_status = "success"]
        ko == [create_state(LockConfig, 2, 2) EXCEPT !.metadata.workflow_status = "failed"]
    IN  WriteFile(WriteFile(<<>>, _get_state_file_path(ok.metadata), ok),
                  _get_state_file_path(ko.metadata), ko)

\* How a main() ended: by what, whether acquire_lock had returned True, and
\* whether release_lock was executed.
Ended(how, acquired, released) ==
    [how |-> how, acquired |-> acquired, released |-> released]

\* Variant: the lock outlives the descriptor of its holder.
Unlocked_outlivesHolder(p) == flock_holder

\* What the descriptor of a process that ends, or closes it, gives up.
Unlocked(p) ==
    [i \in DOMAIN flock_holder |-> IF flock_holder[i] = p THEN 0 ELSE flock_holder[i]]

lock_frame == <<config, now, runs, mode, from_task, notifier, pc, cont, idx, memory_vars, outcome,
                exit_code, crashed, stale, write_failures, fn_vars>>

\* main() with --clean-state (cli.py lines 96-101): no lock is taken.
CliClean(p) ==
    /\ ppc[p] = "start"
    /\ disk' = cleanup_old_states(disk, now, older_than_days)
    /\ last_touch' = IF disk' # disk THEN [by |-> p, held |-> believes[p]] ELSE last_touch
    /\ UNCHANGED <<lock_file, file_content, flock_holder, inodes_used, lock_fd, ppc,
                   believes, last_exit, lock_frame>>

\* acquire_lock line 290: open(LOCK_FILE, 'w') creates the file or truncates it.
AcquireOpen(p) ==
    /\ ppc[p] = "start"
    /\ IF lock_file = 0
       THEN /\ inodes_used < MaxInodes
            /\ inodes_used' = inodes_used + 1
            /\ lock_file' = inodes_used + 1
            /\ lock_fd' = [lock_fd EXCEPT ![p] = inodes_used + 1]
            /\ UNCHANGED file_content
       ELSE /\ file_content' = [file_content EXCEPT ![lock_file] = 0]
            /\ lock_fd' = [lock_fd EXCEPT ![p] = lock_file]
            /\ UNCHANGED <<lock_file, inodes_used>>
    /\ ppc' = [ppc EXCEPT ![p] = "opened"]
    /\ UNCHANGED <<flock_holder, believes, last_touch, last_exit, disk, lock_frame>>

\* acquire_lock line 293: flock(LOCK_EX | LOCK_NB); IOError makes it return False.
AcquireFlock(p) ==
    /\ ppc[p] = "opened"
    /\ IF flock_holder[lock_fd[p]] = 0
       THEN /\ flock_holder' = [flock_holder EXCEPT ![lock_fd[p]] = p]
            /\ ppc' = [ppc EXCEPT ![p] = "locked"]
       ELSE /\ ppc' = [ppc EXCEPT ![p] = "refused"]
            /\ UNCHANGED flock_holder
    /\ UNCHANGED <<lock_file, file_content, inodes_used, lock_fd, believes, last_touch,
                   last_exit, disk, lock_frame>>

\* acquire_lock lines 296-300: write the pid, return True.
AcquireWritePid(p) ==
    /\ ppc[p] = "locked"
    /\ file_content' = [file_content EXCEPT ![lock_fd[p]] = p]
    /\ believes' = [believes EXCEPT ![p] = TRUE]
    /\ ppc' = [ppc EXCEPT ![p] = "holding"]
    /\ UNCHANGED <<lock_file, flock_holder, inodes_used, lock_fd, last_touch, last_exit,
                   disk, lock_frame>>

\* main() lines 107-110: acquire_lock returned False, sys.exit(1); the process
\* ends and its descriptor is closed.
ExitRefused(p) ==
    /\ ppc[p] = "refused"
    /\ lock_fd' = [lock_fd EXCEPT ![p] = 0]
    /\ ppc' = [ppc EXCEPT ![p] = "start"]
    /\ last_exit' = [last_exit EXCEPT ![p] = Ended("refused", FALSE, FALSE)]
    /\ UNCHANGED <<lock_file, file_content, flock_holder, inodes_used, believes,
                   last_touch, disk, lock_frame>>

\* main() lines 112-153: nothing made it exit early; it enters the try block.
EnterTry(p) ==
    /\ ppc[p] = "holding"
    /\ ppc' = [ppc EXCEPT ![p] = "running"]
    /\ UNCHANGED <<lock_file, file_content, flock_holder, inodes_used, lock_fd, believes,
                   last_touch, last_exit, disk, lock_frame>>

\* The engine of the lock holder saves its snapshot: the first save of a run,
\* then the final one (run(), called on line 163).
EngineSave(p) ==
    /\ ppc[p] = "running"
    /\ LET fresh == create_state(config, now, now)
           f == _get_state_file_path(fresh.metadata)
       IN  /\ f \in DOMAIN disk => disk[f].metadata.workflow_status = "running"
           /\ disk' = IF f \in DOMAIN disk
                      THEN WriteFile(disk, f,
                               [disk[f] EXCEPT !.metadata.workflow_status = "success"])
                      ELSE WriteFile(disk, f, fresh)
    /\ last_touch' = [by |-> p, held |-> believes[p]]
    /\ UNCHANGED <<lock_file, file_content, flock_holder, inodes_used, lock_fd, ppc,
                   believes, last_exit, lock_frame>>

\* release_lock lines 313-316: the guard is on self.lock_fd alone, so it passes
\* after a refused acquire_lock too; LOCK_UN, close, lock_fd = None.
release_lock_unlock(p, how) ==
    /\ lock_fd[p] # 0
    /\ flock_holder' = Unlocked(p)
    /\ lock_fd' = [lock_fd EXCEPT ![p] = 0]
    /\ believes' = [believes EXCEPT ![p] = FALSE]
    /\ ppc' = [ppc EXCEPT ![p] = "unlocked"]
    /\ last_exit' = [last_exit EXCEPT ![p] = Ended(how, believes[p], TRUE)]
    /\ UNCHANGED <<lock_file, file_content, inodes_used, last_touch, disk, lock_frame>>

\* release_lock called by main() on an early exit (lines 126, 134, 149), after
\* run() returned (166) or after an exception (182), or by a caller of the bare
\* API after a refused acquire_lock.
ReleaseUnlock(p) ==
    /\ ppc[p] \in {"holding", "running", "refused"}
    /\ release_lock_unlock(p, "return")

\* release_lock lines 319-320: remove LOCK_FILE if the path exists.
ReleaseRemove(p) ==
    /\ ppc[p] = "unlocked"
    /\ lock_file' = 0
    /\ ppc' = [ppc EXCEPT ![p] = "start"]
    /\ UNCHANGED <<file_content, flock_holder, inodes_used, lock_fd, believes,
                   last_touch, last_exit, disk, lock_frame>>

\* The process ends without running any more of its code: its descriptor is
\* closed by the system, the lock file stays.
ProcessEnds(p, how) ==
    /\ flock_holder' = Unlocked(p)
    /\ lock_fd' = [lock_fd EXCEPT ![p] = 0]
    /\ believes' = [believes EXCEPT ![p] = FALSE]
    /\ ppc' = [ppc EXCEPT ![p] = "start"]
    /\ last_exit' = [last_exit EXCEPT ![p] = Ended(how, believes[p], FALSE)]
    /\ UNCHANGED <<lock_file, file_content, inodes_used, last_touch, disk, lock_frame>>

\* KeyboardInterrupt is raised in the process.  Inside the try block of main()
\* (lines 153-173) the handler of lines 175-178 calls release_lock; anywhere
\* else (acquire_lock and load_latest_failed_state catch Exception, which
\* KeyboardInterrupt is not; lines 112-150 are outside the try) it propagates
\* out of main() and the interpreter exits.
Interrupt(p) ==
    /\ ppc[p] \in {"opened", "locked", "refused", "holding", "running"}
    /\ IF ppc[p] = "running"
       THEN release_lock_unlock(p, "interrupt")
       ELSE ProcessEnds(p, "interrupt")

\* The process is killed (SIGKILL): no handler runs.
Kill(p) ==
    /\ ppc[p] # "start"
    /\ ProcessEnds(p, "killed")

LockInit ==
    /\ config = LockConfig
    /\ now = LockNow
    /\ runs = 0
    /\ disk = OldStateDir
    /\ mode = "none"
    /\ from_task = NoName
    /\ notifier = FALSE
    /\ pc = "idle"
    /\ cont = "none"
    /\ idx = 0
    /\ resume_from_index = 0
    /\ current_state = NoState
    /\ workflow_context = EmptyDict
    /\ failed_tasks = <<>>
    /\ executed_tasks = <<>>
    /\ skipped_tasks = <<>>
    /\ invoked = {}
    /\ call_log = <<>>
    /\ loaded = NoState
    /\ outcome = "none"
    /\ exit_code = 0
    /\ crashed = NoFile
    /\ stale = FALSE
    /\ write_failures = 0
    /\ lock_file = 0
    /\ file_content = [i \in Inodes |-> 0]
    /\ flock_holder = [i \in Inodes |-> 0]
    /\ inodes_used = 0
    /\ lock_fd = [p \in Procs |-> 0]
    /\ ppc = [p \in Procs |-> "start"]
    /\ believes = [p \in Procs |-> FALSE]
    /\ last_touch = [by |-> 0, held |-> TRUE]
    /\ last_exit = [p \in Procs |-> Ended("none", FALSE, FALSE)]
    /\ FnIdle

LockNext ==
    \E p \in Procs :
        \/ CliClean(p)
        \/ AcquireOpen(p)
        \/ AcquireFlock(p)
        \/ AcquireWritePid(p)
        \/ ExitRefused(p)
        \/ EnterTry(p)
        \/ EngineSave(p)
        \/ ReleaseUnlock(p)
        \/ ReleaseRemove(p)
        \/ Interrupt(p)
        \/ Kill(p)

LockSpec == LockInit /\ [][LockNext]_vars


(***************************************************************************)
(* FnSpec: the pure functions, each applied once to an argument drawn from *)
(* a bounded set.                                                          *)
(***************************************************************************)
Statuses == {"pending", "running", "success", "failed"}

NoResult == <<>>

StatusLists ==
    UNION { [1..n -> Statuses] : n \in 0..MaxLen }

TaskStatesOf(statuses) ==
    [i \in 1..Len(statuses) |->
        [name |-> TaskNames[i], status |-> statuses[i]]]

FnInit ==
    /\ config = LockConfig
    /\ now = 0
    /\ runs = 0
    /\ disk = <<>>
    /\ mode = "none"
    /\ from_task = NoName
    /\ notifier = FALSE
    /\ pc = "idle"
    /\ cont = "none"
    /\ idx = 0
    /\ resume_from_index = 0
    /\ current_state = NoState
    /\ workflow_context = EmptyDict
    /\ failed_tasks = <<>>
    /\ executed_tasks = <<>>
    /\ skipped_tasks = <<>>
    /\ invoked = {}
    /\ call_log = <<>>
    /\ loaded = NoState
    /\ outcome = "none"
    /\ exit_code = 0
    /\ crashed = NoFile
    /\ stale = FALSE
    /\ write_failures = 0
    /\ LockIdle
    /\ fn_input \in StatusLists
    /\ fn_result = NoResult

fn_frame == <<config, now, runs, disk, mode, from_task, notifier, pc, cont, idx, memory_vars, outcome,
              exit_code, crashed, stale, write_failures, lock_vars>>

Call_find_resume_point ==
    /\ fn_result = NoResult
    /\ fn_result' = <<_find_resume_point([tasks |-> TaskStatesOf(fn_input)])>>
    /\ UNCHANGED <<fn_input, fn_frame>>

FnNext == Call_find_resume_point

FnSpec == FnInit /\ [][FnNext]_vars


(***************************************************************************)
(* ValidateSpec: validate_state applied once to a snapshot, a force flag   *)
(* and the configuration in use.  The snapshot is what create_state built  *)
(* under the configuration `created`, as it is or with one structural      *)
(* defect; the configuration in use may name another file than config.yaml *)
(* and the working directory may or may not hold a config.yaml.            *)
(***************************************************************************)
OtherConfigFile == "other.yaml"

Contents == {Content(1, 1), Content(2, 1), Content(1, 2)}

ValidateConfigs ==
    { [path |-> DefaultConfigFile, files |-> (DefaultConfigFile :> c),
       workflow |-> LockConfig.workflow] : c \in Contents }
    \cup { [path |-> OtherConfigFile, files |-> (OtherConfigFile :> c),
            workflow |-> LockConfig.workflow] : c \in Contents }
    \cup { [path |-> OtherConfigFile,
            files |-> (OtherConfigFile :> c) @@ (DefaultConfigFile :> d),
            workflow |-> LockConfig.workflow] : c \in Contents, d \in Contents }

\* The content of the configuration file an invocation uses: Config(args.config).
ContentInUse(cfg) == cfg.files[cfg.path]

Without(r, field) == [g \in (DOMAIN r) \ {field} |-> r[g]]

Defects == {"none", "version", "no_version", "no_metadata", "no_tasks",
            "no_config_hash", "no_run_id", "no_start_time"}

Damaged(state, defect) ==
    CASE defect = "none" -> state
      [] defect = "version" -> [state EXCEPT !.version = "0.9"]
      [] defect = "no_version" -> Without(state, "version")
      [] defect = "no_metadata" -> Without(state, "metadata")
      [] defect = "no_tasks" -> Without(state, "tasks")
      [] defect = "no_config_hash" ->
            [state EXCEPT !.metadata = Without(state.metadata, "config_hash")]
      [] defect = "no_run_id" ->
            [state EXCEPT !.metadata = Without(state.metadata, "run_id")]
      [] defect = "no_start_time" ->
            [state EXCEPT !.metadata = Without(state.metadata, "start_time")]

ValidateInputs ==
    { [state |-> Damaged(create_state(created, 1, 1), defect), defect |-> defect,
       force |-> force, created |-> created, cfg |-> cfg]
      : created \in ValidateConfigs, cfg \in ValidateConfigs,
        defect \in Defects, force \in BOOLEAN }

ValidateInit ==
    /\ config = LockConfig
    /\ now = 0
    /\ runs = 0
    /\ disk = <<>>
    /\ mode = "none"
    /\ from_task = NoName
    /\ notifier = FALSE
    /\ pc = "idle"
    /\ cont = "none"
    /\ idx = 0
    /\ resume_from_index = 0
    /\ current_state = NoState
    /\ workflow_context = EmptyDict
    /\ failed_tasks = <<>>
    /\ executed_tasks = <<>>
    /\ skipped_tasks = <<>>
    /\ invoked = {}
    /\ call_log = <<>>
    /\ loaded = NoState
    /\ outcome = "none"
    /\ exit_code = 0
    /\ crashed = NoFile
    /\ stale = FALSE
    /\ write_failures = 0
    /\ LockIdle
    /\ fn_input \in ValidateInputs
    /\ fn_result = NoResult

Call_validate_state ==
    /\ fn_result = NoResult
    /\ fn_result' = <<validate_state(fn_input.state, fn_input.force, fn_input.cfg)>>
    /\ UNCHANGED <<fn_input, fn_frame>>

ValidateNext == Call_validate_state

ValidateSpec == ValidateInit /\ [][ValidateNext]_vars


(***************************************************************************)
(* Properties                                                              *)
(***************************************************************************)
Unfinished(tasks) ==
    { i \in 1..Len(tasks) : tasks[i].status \in {"pending", "running", "failed"} }

\* The index the glossary calls the resume point: the first task not concluded
\* successfully, 1 when there is none.
FirstUnfinished(tasks) ==
    IF Unfinished(tasks) = {} THEN 1
    ELSE CHOOSE i \in Unfinished(tasks) : \A j \in Unfinished(tasks) : i <= j

\* C1 -- a run killed inside its task loop after a snapshot was persisted is
\* found by the next resume (load_latest_failed_state returns that run's
\* snapshot) and restarted at its first task not concluded successfully.
C1_CrashResumable ==
    [][(crashed # NoFile /\ runs' = runs + 1 /\ mode' = "resume")
         => /\ pc' = "loop"
            /\ _get_state_file_path(current_state'.metadata) = crashed
            /\ resume_from_index' = FirstUnfinished(disk[crashed].tasks)]_vars

\* C2 -- at most one process at a time believes it holds the run lock.
C2_MutualExclusion ==
    Cardinality({ p \in DOMAIN believes : believes[p] }) <= 1

\* C4 -- in a resumed run execute is never invoked for a task whose status in
\* the loaded snapshot is success.
C4_NoRedoOfCompletedWork ==
    (mode = "resume" /\ pc # "idle")
        => \A i \in invoked : loaded.tasks[i].status # "success"

LoopStops == pc = "final" \/ (pc = "save" /\ cont = "final")

\* C6 -- after a task recorded as a failure that is not the last of the list, the
\* loop stops if and only if that task's fail_on_error and the workflow's
\* stop_on_first_error are both true.
C6_AbortPolicy ==
    [][(Len(failed_tasks') = Len(failed_tasks) + 1 /\ idx < NTasks)
         => (LoopStops' <=> (tasks_config[idx].fail_on_error /\ stop_on_error))]_vars

\* C11 -- a main() in which acquire_lock returned True executes release_lock before
\* the process exits, whatever makes it exit short of a kill: a return, an early
\* exit, an exception, an interrupt at any point after the acquisition.
C11_ReleaseOnEveryExitPath ==
    \A p \in DOMAIN last_exit :
        (last_exit[p].acquired /\ last_exit[p].how # "killed") => last_exit[p].released

\* C12 -- acquire_lock returns at once: False while another process holds the
\* lock, True when no other process holds it or is acquiring it.
C12_NonBlockingContract ==
    [][\A p \in DOMAIN ppc :
         (ppc[p] = "opened" /\ ppc'[p] \in {"locked", "refused"}) =>
            /\ (\E q \in DOMAIN ppc : q # p /\ believes[q]) => ppc'[p] = "refused"
            /\ (\A q \in DOMAIN ppc : q # p => ~believes[q] /\ ppc[q] # "locked")
                  => ppc'[p] = "locked"]_vars

\* C13 -- while a process holds the run lock, the lock file exists and its content
\* is that process's identifier.
C13_LockFileNamesHolder ==
    \A p \in DOMAIN believes :
        believes[p] => (lock_file # 0 /\ file_content[lock_file] = p)

\* C14 -- for a well-formed snapshot, when the content of the configuration file
\* in use differs from the content in use when the snapshot was created:
\* without force validate_state returns invalid with a message that carries the
\* stored hash and the hash of the file in use, with force it returns valid.
C14_ConfigDriftDetected ==
    (fn_result # NoResult /\ fn_input.defect = "none"
       /\ ContentInUse(fn_input.cfg) # ContentInUse(fn_input.created)) =>
        IF fn_input.force THEN fn_result[1].valid
        ELSE /\ ~fn_result[1].valid
             /\ fn_result[1].kind = "config_hash"
             /\ fn_result[1].values = <<fn_input.state.metadata.config_hash,
                                        Md5Prefix(ContentInUse(fn_input.cfg))>>

\* C15 -- validate_state returns valid exactly when the snapshot has no structural
\* defect (version, metadata, tasks, required metadata fields) and, unless force
\* is set, the stored hash equals the one computed now: force changes the
\* verdict of no snapshot with a structural defect.
C15_ForceKeepsStructuralChecks ==
    fn_result # NoResult =>
        /\ fn_input.defect # "none" => ~fn_result[1].valid
        /\ fn_input.defect = "none" =>
              (fn_result[1].valid <=>
                 (fn_input.force
                    \/ fn_input.state.metadata.config_hash
                         = calculate_config_hash(fn_input.cfg)))
        /\ fn_input.defect \in {"version", "no_version"} => fn_result[1].kind = "version"

C15_Witness ==
    /\ fn_result # NoResult
    /\ fn_input.force
    /\ fn_input.defect = "no_run_id"
    /\ ~fn_result[1].valid
    /\ fn_result[1].values = <<"run_id">>

\* C10 -- whoever created, overwrote or removed a snapshot file held the run lock.
C10_OnlyLockHolderTouchesState == last_touch.held


\* The tasks whose loop iteration is over.
Passed ==
    IF pc \in {"final", "exit"} \/ (pc \in {"save", "rename"} /\ cont \in {"next", "final", "exit"})
    THEN 1..idx
    ELSE 1..(idx - 1)

NamespaceOf(wc, name) == IF name \in DOMAIN wc THEN <<wc[name]>> ELSE <<>>

FrameOfSkipped(state, i) ==
    /\ state.tasks[i] = loaded.tasks[i]
    /\ NamespaceOf(state.workflow_context, loaded.tasks[i].name)
         = NamespaceOf(loaded.workflow_context, loaded.tasks[i].name)

ResumeFrame ==
    /\ \A i \in invoked : i >= resume_from_index
    /\ \A i \in 1..(resume_from_index - 1) :
          /\ FrameOfSkipped(current_state, i)
          /\ StateFile \in GlobStateFiles(disk) => FrameOfSkipped(disk[StateFile], i)

Forward(s, t) ==
    \/ s = t
    \/ s = "pending"
    \/ s = "running" /\ t \in {"success", "failed"}

AtRest == pc \in {"loop", "exec", "final", "exit"}

Persisted ==
    /\ StateFile \in GlobStateFiles(disk)
    /\ disk[StateFile] = current_state

\* C8 as stated -- when execute of task i is invoked the running transition of
\* task i is on disk, and between two saves the snapshot on disk is the engine's
\* state.
C8_PersistenceOrderingAsStated ==
    /\ AtRest => Persisted
    /\ pc = "exec" => disk[StateFile].tasks[idx].status = "running"

\* C8 -- the same, unless the last save_state failed to write.
C8_PersistenceOrdering ==
    (AtRest /\ ~stale) =>
        /\ Persisted
        /\ pc = "exec" => disk[StateFile].tasks[idx].status = "running"

C8_Witness ==
    /\ pc = "exec"
    /\ idx = 2
    /\ ~stale
    /\ write_failures = 1
    /\ disk[StateFile].tasks[1].status = "success"

\* C9 -- whatever step is taken, killed or failed saves included, every file the
\* glob of a reader matches holds a complete snapshot: the one it held before the
\* step, or the engine's state being saved.
C9_AtomicSnapshotWrite ==
    [][\A f \in GlobStateFiles(disk') :
          /\ IsSnapshot(disk'[f])
          /\ \/ f \in GlobStateFiles(disk) /\ disk'[f] = disk[f]
             \/ disk'[f] = current_state]_vars

C9_Witness ==
    /\ pc = "idle"
    /\ outcome = "interrupted"
    /\ \E f \in GlobStateFiles(disk) :
          /\ TempFile(f) \in DOMAIN disk
          /\ disk[TempFile(f)] = Torn
          /\ disk[f].tasks[1].status = "running"

\* ---- the run as a whole
Names(seq) == { seq[k] : k \in DOMAIN seq }

NamesClash(ts) ==
    \E i, j \in 1..Len(ts) : i # j /\ TaskName(ts[i], i) = TaskName(ts[j], j)

\* C16 -- an invocation on a task list in which two tasks have the same name,
\* explicit or defaulted, ends at once with a non-zero code: no task is
\* constructed or executed, no snapshot is created in memory or written.
C16_DuplicateNamesFailEarly ==
    [][(NamesClash(tasks_config) /\ runs' = runs + 1) =>
         /\ pc' = "idle"
         /\ outcome' = IF mode' = "resume" THEN "no_resumable_state" ELSE "duplicate_names"
         /\ exit_code' = 1
         /\ current_state' = NoState
         /\ call_log' = <<>>
         /\ disk' = disk]_vars

C16_Witness ==
    /\ pc = "idle"
    /\ outcome = "duplicate_names"
    /\ exit_code = 1
    /\ tasks_config[1].name = DefaultNames[2]
    /\ tasks_config[2].name = NoName
    /\ disk = <<>>

AllRunnable(ts) ==
    /\ ~NamesClash(ts)
    /\ \A i \in 1..Len(ts) : ts[i].enabled /\ ts[i].type \in Registry

AllSucceeded ==
    \A i \in 1..NTasks : \E k \in DOMAIN call_log : call_log[k] = Call(i, "execute", "success")

\* The snapshot of this run on disk says success for the workflow and for each
\* of the N tasks, in declaration order.
AllSuccessOnDisk ==
    /\ StateFile \in GlobStateFiles(disk)
    /\ disk[StateFile].metadata.workflow_status = "success"
    /\ Len(disk[StateFile].tasks) = NTasks
    /\ \A i \in 1..NTasks :
          /\ disk[StateFile].tasks[i].status = "success"
          /\ disk[StateFile].tasks[i].name = TaskName(tasks_config[i], i)

\* C17 as stated -- a fresh run of N uniquely named, enabled, typed tasks whose
\* execute all return success returns 0 and leaves a snapshot with status
\* success and N TaskStates, all success, in declaration order; N = 0 included.
C17_AllSuccessRunAsStated ==
    /\ (pc = "exit" /\ mode = "fresh" /\ AllRunnable(tasks_config) /\ AllSucceeded)
          => (Len(failed_tasks) = 0 /\ AllSuccessOnDisk)
    /\ (pc = "idle" /\ mode = "fresh" /\ outcome = "no_tasks")
          => (exit_code = 0 /\ GlobStateFiles(disk) # {})

\* C17 -- the same for N >= 1 when the final save_state wrote its file; for N = 0
\* the run returns 0 and persists nothing.
C17_AllSuccessRun ==
    /\ (pc = "exit" /\ mode = "fresh" /\ AllRunnable(tasks_config) /\ AllSucceeded)
          => (Len(failed_tasks) = 0 /\ (~stale => AllSuccessOnDisk))
    /\ (pc = "idle" /\ mode = "fresh" /\ outcome = "no_tasks")
          => (exit_code = 0 /\ disk = <<>>)

C17_Witness ==
    /\ pc = "exit"
    /\ mode = "fresh"
    /\ NTasks = 2
    /\ tasks_config[1].name = NoName
    /\ AllSucceeded
    /\ ~stale
    /\ AllSuccessOnDisk

\* The tasks that failed in this run: no type tag, not constructed, execute
\* returned false or raised.
FailedInRun ==
    { call_log[k].task : k \in { j \in DOMAIN call_log :
          /\ call_log[j].op \in {"no_type", "create", "execute"}
          /\ call_log[j].result \in {"failure", "exception"} } }

EarlyReturns == {"no_tasks", "duplicate_names", "task_not_found"}

ContainedFailures ==
    { k \in DOMAIN call_log :
        /\ call_log[k].op \in {"create", "execute"}
        /\ call_log[k].result \in {"failure", "exception"} }

FailureText(c) ==
    IF c.op = "create" THEN "unknown task type"
    ELSE IF c.result = "exception" THEN "exception" ELSE "error"

RecordedFailed(state, c) ==
    /\ state.tasks[c.task].status = "failed"
    /\ state.tasks[c.task].message = FailureText(c)

\* What holds of a contained failure whether or not its save wrote the file: the
\* run goes on, the task is failed in the engine's state and in the count, and
\* the loop stops after it exactly when the abort policy says so.
Contained(c) ==
    /\ pc # "idle"
    /\ RecordedFailed(current_state, c)
    /\ TaskName(tasks_config[c.task], c.task) \in Names(failed_tasks)
    /\ (c.task = idx /\ pc \in {"save", "rename"} /\ cont \in {"next", "final"}) =>
          (cont = "final" <=> (tasks_config[idx].fail_on_error /\ stop_on_error))

\* C19 as stated -- a task whose construction or execute raised, or whose execute
\* returned false, is contained and is failed, with the failure text, in the
\* snapshot on disk once its save_state has returned.
C19_FailureContainmentAsStated ==
    \A k \in ContainedFailures :
        /\ Contained(call_log[k])
        /\ AtRest => /\ StateFile \in GlobStateFiles(disk)
                     /\ RecordedFailed(disk[StateFile], call_log[k])

\* C19 -- the same, the snapshot on disk showing the failure unless the last
\* save_state failed to write.
C19_FailureContainment ==
    \A k \in ContainedFailures :
        /\ Contained(call_log[k])
        /\ (AtRest /\ ~stale) => /\ StateFile \in GlobStateFiles(disk)
                                  /\ RecordedFailed(disk[StateFile], call_log[k])

C19_Witness ==
    /\ pc = "loop"
    /\ idx = 2
    /\ ~stale
    /\ stop_on_error
    /\ call_log = <<Call(1, "execute", "exception")>>
    /\ disk[StateFile].tasks[1].status = "failed"

Executions(i) ==
    { k \in DOMAIN call_log : call_log[k].task = i /\ call_log[k].op = "execute" }

ExportsFollowSuccess ==
    \A k \in DOMAIN call_log :
        call_log[k].op = "export_context" =>
            /\ \E j \in 1..(k - 1) : call_log[j] = Call(call_log[k].task, "execute", "success")
            /\ call_log[k].task \notin FailedInRun
            /\ TaskName(tasks_config[call_log[k].task], call_log[k].task)
                  \notin Names(skipped_tasks)

\* C20 as stated -- in one run execute is invoked at most once per task and once
\* for every enabled task with a type tag, at or after the start point, that
\* the loop has passed; export_context is invoked only after the task's execute
\* returned success, never for a failed or skipped task.
C20_InvocationProtocolAsStated ==
    pc # "idle" =>
        /\ \A i \in 1..NTasks : Cardinality(Executions(i)) <= 1
        /\ \A i \in Passed :
              (i >= resume_from_index /\ tasks_config[i].enabled
                 /\ tasks_config[i].type # "") => Cardinality(Executions(i)) = 1
        /\ ExportsFollowSuccess

\* C20 -- the same, the tasks executed once being the enabled ones whose type tag
\* is registered; a task whose type tag is not registered is never constructed
\* and its execute never invoked.
C20_InvocationProtocol ==
    pc # "idle" =>
        /\ \A i \in 1..NTasks : Cardinality(Executions(i)) <= 1
        /\ \A i \in Passed :
              (i >= resume_from_index /\ tasks_config[i].enabled
                 /\ tasks_config[i].type \in Registry) => Cardinality(Executions(i)) = 1
        /\ \A i \in 1..NTasks :
              tasks_config[i].type \notin Registry => Executions(i) = {}
        /\ ExportsFollowSuccess

C20_Witness ==
    /\ pc = "exit"
    /\ mode = "from_task"
    /\ resume_from_index = 2
    /\ call_log = <<Call(2, "execute", "success"), Call(2, "export_context", "exception")>>

\* ---- named start
\* The loop was stopped before task i by the abort policy: a task from the start
\* point on failed, with fail_on_error and stop_on_first_error both true.
PolicyStoppedBefore(i) ==
    \E j \in resume_from_index..(i - 1) :
        j \in FailedInRun /\ tasks_config[j].fail_on_error /\ stop_on_error

InDeclarationOrder ==
    \A k, l \in DOMAIN call_log : k < l => call_log[k].task <= call_log[l].task

\* C21 -- a run started from a name that a task has skips every task before that
\* task without executing it, and executes, in declaration order, every enabled
\* task with a registered type from that task on, up to the point where the abort
\* policy (fail_on_error and stop_on_first_error both true for a failed task)
\* stops the loop; the run needed no snapshot.
C21_NamedStart ==
    (pc = "exit" /\ mode = "from_task") =>
        /\ loaded = NoState
        /\ TaskName(tasks_config[resume_from_index], resume_from_index) = from_task
        /\ \A i \in 1..(resume_from_index - 1) :
              /\ \A k \in DOMAIN call_log : call_log[k].task # i
              /\ TaskName(tasks_config[i], i) \in Names(skipped_tasks)
        /\ \A i \in resume_from_index..NTasks :
              (tasks_config[i].enabled /\ tasks_config[i].type \in Registry
                 /\ ~PolicyStoppedBefore(i)) => Cardinality(Executions(i)) = 1
        /\ InDeclarationOrder

NoTaskNamed(name) == \A i \in 1..NTasks : TaskName(tasks_config[i], i) # name

NothingRunNothingWritten ==
    /\ pc' = "idle"
    /\ call_log' = <<>>
    /\ invoked' = {}
    /\ current_state' = NoState
    /\ disk' = disk

Cutoff == LockNow - older_than_days * DaySeconds

Stamps == {Cutoff - 1, Cutoff, Cutoff + 1}

WorkflowStatuses == {"running", "success", "failed", "interrupted"}

FileKinds ==
    { [status |-> s, last_update |-> t] : s \in WorkflowStatuses, t \in Stamps }
      \cup { [status |-> "failed", last_update |-> NoTime],
             [status |-> "unparseable", last_update |-> NoTime] }

SnapshotFile(i, k) ==
    IF k.status = "unparseable" THEN Torn
    ELSE [create_state(LockConfig, i, i) EXCEPT
            !.metadata.workflow_status = k.status,
            !.metadata.last_update = k.last_update]

FileSlot(i) == _get_state_file_path(create_state(LockConfig, i, i).metadata)

LeftoverKinds ==
    { [status |-> "failed", last_update |-> Cutoff + 1],
      [status |-> "success", last_update |-> Cutoff - 1] }

StateDirs ==
    UNION { { [f \in { FileSlot(i) : i \in used } \cup left |->
                 IF f.ext = "json" THEN SnapshotFile(f.run_id, ks[f.run_id])
                 ELSE SnapshotFile(f.run_id, lk)]
              : ks \in [used -> FileKinds], lk \in LeftoverKinds,
                left \in {{}, {TempFile(FileSlot(MaxFiles + 1))}} }
            : used \in SUBSET (1..MaxFiles) }

DirInit ==
    /\ config = LockConfig
    /\ now = LockNow
    /\ runs = 0
    /\ disk \in StateDirs
    /\ mode = "none"
    /\ from_task = NoName
    /\ notifier = FALSE
    /\ pc = "idle"
    /\ cont = "none"
    /\ idx = 0
    /\ resume_from_index = 0
    /\ current_state = NoState
    /\ workflow_context = EmptyDict
    /\ failed_tasks = <<>>
    /\ executed_tasks = <<>>
    /\ skipped_tasks = <<>>
    /\ invoked = {}
    /\ call_log = <<>>
    /\ loaded = NoState
    /\ outcome = "none"
    /\ exit_code = 0
    /\ crashed = NoFile
    /\ stale = FALSE
    /\ write_failures = 0
    /\ LockIdle
    /\ fn_input = disk
    /\ fn_result = NoResult

dir_frame == <<config, now, runs, mode, from_task, notifier, pc, cont, idx, memory_vars,
               outcome, exit_code, crashed, stale, write_failures, lock_vars>>

\* load_latest_failed_state on the directory: the file whose state it returns,
\* NoFile for None.
Call_load_latest_failed_state ==
    /\ fn_result = NoResult
    /\ \E f \in IF load_latest_failed_state(disk) = {} THEN {NoFile}
                ELSE load_latest_failed_state(disk) :
          fn_result' = <<[op |-> "load_latest_failed_state", value |-> f]>>
    /\ UNCHANGED <<disk, fn_input, dir_frame>>

\* cleanup_old_states on the directory: os.remove raises for the files of `stuck`
\* (lines 261, 265-267), which stay and are not counted.
Call_cleanup_old_states ==
    /\ fn_result = NoResult
    /\ \E stuck \in SUBSET GlobStateFiles(disk) :
          LET removed == CleanupRemoves(disk, now, older_than_days) \ stuck
          IN  /\ disk' = [f \in (DOMAIN disk) \ removed |-> disk[f]]
              /\ fn_result' = <<[op |-> "cleanup_old_states",
                                 value |-> Cardinality(removed), stuck |-> stuck]>>
    /\ UNCHANGED <<fn_input, dir_frame>>

DirNext ==
    \/ Call_load_latest_failed_state
    \/ Call_cleanup_old_states

DirSpec == DirInit /\ [][DirNext]_vars

\* ---- the snapshot files of a directory
Readable(d) == { f \in DOMAIN d : f.ext = "json" /\ d[f] # Torn }

Qualifying(d) ==
    { f \in Readable(d) : d[f].metadata.workflow_status \in {"failed", "interrupted"} }

WellStamped(d) == { f \in Qualifying(d) : d[f].metadata.last_update # NoTime }

Latest(d, among) ==
    { f \in among : \A g \in among : d[g].metadata.last_update <= d[f].metadata.last_update }

\* C23 -- load_latest_failed_state returns, among the readable snapshot files
\* whose workflow_status is failed or interrupted, one with the greatest
\* last_update, and none when no file qualifies; a file that cannot be parsed or
\* whose last_update is null does not change the result computed from the others.
C23_LatestFailedSnapshot ==
    (fn_result # NoResult /\ fn_result[1].op = "load_latest_failed_state") =>
        IF WellStamped(fn_input) # {}
        THEN fn_result[1].value \in Latest(fn_input, WellStamped(fn_input))
        ELSE fn_result[1].value \in Qualifying(fn_input) \cup {NoFile}

OldSuccess(d) ==
    { f \in Readable(d) :
        d[f].metadata.workflow_status = "success" /\ getmtime(d, f) < Cutoff }

\* C24 -- cleanup_old_states removes a file only if it is a snapshot file with
\* status success and a modification time before the cutoff, and removes every
\* such file on which os.remove does not fail; snapshots that are failed,
\* interrupted or running survive whatever their age, the files that stay are
\* unchanged, the count returned is the number of files removed, and a file
\* that cannot be parsed or removed does not stop the scan of the others.
C24_CleanupRetention ==
    (fn_result # NoResult /\ fn_result[1].op = "cleanup_old_states") =>
        LET removed == (DOMAIN fn_input) \ (DOMAIN disk)
        IN  /\ removed \subseteq OldSuccess(fn_input)
            /\ OldSuccess(fn_input) \ fn_result[1].stuck \subseteq removed
            /\ \A f \in DOMAIN disk : f \in DOMAIN fn_input /\ disk[f] = fn_input[f]
            /\ \A f \in Readable(fn_input) :
                  fn_input[f].metadata.workflow_status \in {"failed", "interrupted", "running"}
                     => f \in DOMAIN disk
            /\ fn_result[1].value = Cardinality(removed)

C24_Witness ==
    /\ fn_result # NoResult
    /\ fn_result[1].op = "cleanup_old_states"
    /\ fn_result[1].value = 1
    /\ \E f \in fn_result[1].stuck : f \in OldSuccess(disk)
    /\ \E f \in Qualifying(disk) : getmtime(disk, f) = Cutoff - 1

\* ---- the exported context
NamespacesOfSucceeded(state) ==
    \A name \in DOMAIN state.workflow_context :
        \E i \in DOMAIN state.tasks :
            state.tasks[i].name = name /\ state.tasks[i].status = "success"

\* C25 -- in the state the engine holds and in every snapshot on disk, in fresh,
\* named-start and resumed runs, workflow_context has a namespace for a task
\* only if the status of that task, in the same state, is success.
C25_NamespaceOnlyAfterSuccess ==
    /\ current_state # NoState =>
          /\ NamespacesOfSucceeded(current_state)
          /\ NamespacesOfSucceeded([current_state EXCEPT !.workflow_context = workflow_context])
    /\ \A f \in GlobStateFiles(disk) : NamespacesOfSucceeded(disk[f])

(***************************************************************************)
(* DriftSpec: the engine of Spec, where the configuration file can be      *)
(* edited between two invocations (tasks added, removed or reordered);    *)
(* -r --force then resumes the snapshot of the configuration as it was.    *)
(***************************************************************************)
RunnableLists ==
    { [i \in 1..n |-> TaskConfig(i, Runnable)] : n \in 0..(MaxTasks + 1) }

\* The same tasks in the opposite order.
ReorderedLists ==
    { [i \in 1..n |-> TaskConfig(n + 1 - i, Runnable)] : n \in 2..MaxTasks }

DriftConfigs ==
    { c \in Configs : c.workflow.tasks \in RunnableLists /\ c.workflow.tasks # <<>> }

\* The configuration file is rewritten with another task list.
EditConfig ==
    /\ pc = "idle"
    /\ runs > 0
    /\ config.files[DefaultConfigFile] = Content(1, 1)
    /\ \E ts \in (RunnableLists \cup ReorderedLists) \ {tasks_config} :
          config' = [config EXCEPT !.files[DefaultConfigFile] = Content(2, 2),
                                   !.workflow.tasks = ts]
    /\ UNCHANGED <<now, runs, disk, mode, from_task, notifier, pc, cont, idx, memory_vars,
                   outcome, exit_code, crashed, stale, write_failures, lock_vars, fn_vars>>

DriftInit == EngineInitIn(DriftConfigs, {FALSE}) /\ LockIdle /\ FnIdle

DriftNext ==
    \/ Next
    \/ EditConfig

DriftSpec == DriftInit /\ [][DriftNext]_vars

\* C26 -- in every state of every run, fresh, from a named task, resumed or
\* resumed with force, the snapshot the engine holds has as many TaskStates as
\* the task list the engine iterates, and the transitions of every task the run
\* executes are recorded in a TaskState.
C26_TaskListLength ==
    current_state # NoState =>
        /\ Len(current_state.tasks) = NTasks
        /\ \A i \in 1..NTasks :
              Executions(i) # {} /\ i \in Passed =>
                  current_state.tasks[i].status \in {"success", "failed"}

\* ---- export_context and the notifier
ExportRaised(i) ==
    \E k \in DOMAIN call_log : call_log[k] = Call(i, "export_context", "exception")

\* What holds of a lenient export whether or not its save wrote the file: the
\* task is successful in the engine's state, it is not in the failure count, and
\* the loop goes on to the next task.
Lenient(i) ==
    /\ pc # "idle"
    /\ current_state.tasks[i].status = "success"
    /\ TaskName(tasks_config[i], i) \notin Names(failed_tasks)
    /\ (i = idx /\ pc \in {"save", "rename"} /\ cont \in {"next", "final"}) => cont = "next"

\* C27 as stated -- a task whose execute returned success and whose
\* export_context raised is successful in the snapshot on disk once its
\* save_state has returned, is not counted as a failure, does not trigger the
\* abort policy, and the loop proceeds to the next task.
C27_ExportLeniencyAsStated ==
    \A i \in 1..NTasks :
        ExportRaised(i) =>
            /\ Lenient(i)
            /\ AtRest => /\ StateFile \in GlobStateFiles(disk)
                         /\ disk[StateFile].tasks[i].status = "success"

\* C27 -- the same, the snapshot on disk showing the success unless the last
\* save_state failed to write.
C27_ExportLeniency ==
    \A i \in 1..NTasks :
        ExportRaised(i) =>
            /\ Lenient(i)
            /\ (AtRest /\ ~stale) => /\ StateFile \in GlobStateFiles(disk)
                                      /\ disk[StateFile].tasks[i].status = "success"

C27_Witness ==
    /\ pc = "exit"
    /\ stop_on_error
    /\ call_log = <<Call(1, "execute", "success"), Call(1, "export_context", "exception"),
                    Call(2, "execute", "success"), Call(2, "export_context", "success")>>
    /\ disk[StateFile].tasks[1].status = "success"
    /\ exit_code = 0

(***************************************************************************)
(* NotifySpec: the engine of Spec used through its API, with or without a  *)
(* notifier in the context, on tasks that ask for notifications.  The      *)
(* notifier may raise on any message.                                      *)
(***************************************************************************)
NotifyTaskLists ==
    { [i \in 1..n |->
          TaskConfig(i, Runnable) @@
          [notify_on_success |-> flags[1], notify_on_failure |-> flags[2]]]
      : n \in 1..MaxTasks, flags \in BOOLEAN \X BOOLEAN }

NotifyConfigs ==
    { [path |-> DefaultConfigFile,
       files |-> (DefaultConfigFile :> Content(1, 1)),
       workflow |-> [tasks |-> ts, settings |-> [stop_on_first_error |-> s]]]
      : ts \in NotifyTaskLists, s \in BOOLEAN }

NotifyInit == EngineInitIn(NotifyConfigs, BOOLEAN) /\ LockIdle /\ FnIdle

NotifySpec == NotifyInit /\ [][Next]_vars

Notifications ==
    { k \in DOMAIN call_log : call_log[k].op \in {"send_success", "send_failure"} }

\* The notification follows the result it reports, for a task that asked for it.
Warranted(c) ==
    /\ notifier
    /\ IF c.op = "send_success"
       THEN /\ NotifyFlag(tasks_config[c.task], "notify_on_success")
            /\ \E j \in DOMAIN call_log : call_log[j] = Call(c.task, "execute", "success")
       ELSE /\ NotifyFlag(tasks_config[c.task], "notify_on_failure")
            /\ c.task \in FailedInRun

\* The notification, raised or not, left the task as its execution made it.
Isolated(c) ==
    /\ pc # "idle"
    /\ current_state.tasks[c.task].status =
          IF c.op = "send_success" THEN "success" ELSE "failed"
    /\ (c.op = "send_success") <=>
          (TaskName(tasks_config[c.task], c.task) \notin Names(failed_tasks))
    /\ Len(failed_tasks) = Cardinality(FailedInRun)
    /\ (c.task = idx /\ pc \in {"save", "rename"} /\ cont \in {"next", "final"}) =>
          (cont = "final" <=> /\ c.op = "send_failure"
                              /\ tasks_config[idx].fail_on_error
                              /\ stop_on_error)

\* C28 -- a notification is sent only for a task whose matching flag is true, by
\* an engine that has a notifier; whether the notifier raises or not, the status
\* recorded for the task is the result of its execution, the failure count is
\* the number of failed tasks, and the loop stops after the task only as the
\* abort policy decides.
C28_NotifierIsolation ==
    \A k \in Notifications :
        /\ Warranted(call_log[k])
        /\ Isolated(call_log[k])

C28_Witness ==
    /\ pc = "exit"
    /\ stop_on_error
    /\ call_log = <<Call(1, "execute", "success"), Call(1, "export_context", "success"),
                    Call(1, "send_success", "exception"),
                    Call(2, "execute", "failure"), Call(2, "send_failure", "exception")>>
    /\ current_state.tasks[1].status = "success"
    /\ failed_tasks = <<TaskNames[2]>>

\* ---- a save_state that fails to write
\* C29 -- when the write of the temporary file or the rename of save_state
\* raises, the run is not ended: control goes on where it goes after a save that
\* wrote the file, and every snapshot file of the state directory is left as it
\* was, none added and none removed.
C29_WriteFailureNonFatal ==
    [][(write_failures' = write_failures + 1) =>
         /\ pc \in {"save", "rename"}
         /\ pc' = IF cont = "next" THEN (IF idx < NTasks THEN "loop" ELSE "final") ELSE cont
         /\ pc' # "idle"
         /\ UNCHANGED <<failed_tasks, outcome, exit_code>>
         /\ GlobStateFiles(disk') = GlobStateFiles(disk)
         /\ \A f \in GlobStateFiles(disk) : disk'[f] = disk[f]]_vars

C29_Witness ==
    /\ stale
    /\ pc = "exec"
    /\ idx = 2
    /\ StateFile \in GlobStateFiles(disk)
    /\ disk[StateFile].tasks[2].status = "pending"
    /\ disk[StateFile].tasks[1].status = "success"
    /\ TempFile(StateFile) \in DOMAIN disk
    /\ disk[TempFile(StateFile)] = Torn

\* ---- skipped tasks
\* The tasks the run skips: before the resume point or the named start, or
\* disabled.
ToSkip ==
    { i \in 1..NTasks :
        \/ mode \in {"resume", "from_task"} /\ i < resume_from_index
        \/ ~tasks_config[i].enabled }

\* The status of task i when the run started.
StatusBefore(i) == IF mode = "resume" THEN loaded.tasks[i].status ELSE "pending"

\* C30 -- a task before the start point of a resumed or named-start run, or a
\* disabled task, is never constructed or executed, is listed as skipped once the
\* loop has passed it, and has the status it had before the run, in the engine's
\* state and in the run's snapshot on disk, throughout the run and after it.
C30_SkipLeavesStateUnchanged ==
    (pc # "idle" /\ current_state # NoState) =>
        \A i \in ToSkip :
            /\ \A k \in DOMAIN call_log : call_log[k].task # i
            /\ i \notin invoked
            /\ i \in Passed => TaskName(tasks_config[i], i) \in Names(skipped_tasks)
            /\ current_state.tasks[i].status = StatusBefore(i)
            /\ StateFile \in GlobStateFiles(disk) =>
                  disk[StateFile].tasks[i].status = StatusBefore(i)

C30_Witness ==
    /\ pc = "exit"
    /\ mode = "resume"
    /\ resume_from_index = 2
    /\ NTasks = 2
    /\ skipped_tasks = <<TaskNames[1]>>
    /\ loaded.tasks[1].status = "success"
    /\ loaded.tasks[2].status = "failed"
    /\ disk[StateFile].tasks[1].status = "success"
    /\ disk[StateFile].tasks[2].status = "success"

\* ---- exit codes
\* The outcomes that are to have an exit code of their own (lock not acquired is
\* an outcome of LockSpec).
ReservedOutcomes ==
    {"no_tasks", "duplicate_names", "task_not_found", "no_resumable_state", "interrupted"}

\* An invocation ends in this step.
InvocationEnds == pc' = "idle" /\ (pc # "idle" \/ runs' = runs + 1)

\* C31 -- the exit code of a run that went through its loop is the number of
\* tasks that failed; an invocation that ends with no tasks configured,
\* duplicate names, named task not found, no resumable snapshot or an interrupt
\* exits with a code that is not a failure count of the task list and that
\* differs from the code of an invocation that ended with another of them.
C31_ExitCodeMapping ==
    [][InvocationEnds =>
         /\ outcome' = "completed" => exit_code' = Cardinality(FailedInRun)
         /\ outcome' \in ReservedOutcomes => exit_code' \notin 0..NTasks
         /\ (pc = "idle" /\ runs > 0 /\ outcome \in ReservedOutcomes
               /\ outcome' \in ReservedOutcomes /\ outcome' # outcome)
               => exit_code' # exit_code]_vars

\* ---- export namespaces
\* Every variable of a namespace is the value the task of that name exported.
OwnValues(wc) ==
    \A name \in DOMAIN wc : \A key \in DOMAIN wc[name] : wc[name][key][1] = name

\* C32 -- tasks with different names that export a variable with the same key
\* each keep their own value under their own name, and the export of one task
\* leaves the namespace of every other task as it was.
C32_DisjointNamespaces ==
    [][/\ OwnValues(workflow_context')
       /\ (pc = "exec" /\ pc' = "save") =>
             \A other \in DOMAIN workflow_context :
                 other # TaskName(tasks_config[idx], idx) =>
                     /\ other \in DOMAIN workflow_context'
                     /\ workflow_context'[other] = workflow_context[other]]_vars

C32_Witness ==
    /\ pc # "idle"
    /\ DOMAIN workflow_context = {TaskNames[1], TaskNames[2]}
    /\ "path" \in DOMAIN workflow_context[TaskNames[1]]
    /\ "path" \in DOMAIN workflow_context[TaskNames[2]]
    /\ workflow_context[TaskNames[1]].path # workflow_context[TaskNames[2]].path
    /\ current_state.workflow_context = workflow_context

(***************************************************************************)
(* RetrySpec: SSHExecutor.execute_with_retry, one action per iteration of  *)
(* its while loop.  The input is max_retries, whether a notifier is given, *)
(* and what execute_command returns at each attempt; the state is          *)
(* retry_count, the calls made so far and the value returned.              *)
(***************************************************************************)
RetryInputs ==
    [max_retries : 0..MaxRetries,
     notifier : BOOLEAN,
     results : [1..MaxRetries -> BOOLEAN]]

RetryStart == [retry_count |-> 0, log |-> <<>>, returned |-> "none"]

RetryInit ==
    /\ EngineInitIn({LockConfig}, {FALSE})
    /\ LockIdle
    /\ fn_input \in RetryInputs
    /\ fn_result = <<RetryStart>>

Attempts(log) == Cardinality({ k \in DOMAIN log : log[k] \in {"run_ok", "run_failed"} })

Sleeps(log) == Cardinality({ k \in DOMAIN log : log[k] = "sleep" })

\* Variant: every failed attempt is followed by the wait.
LastAttempt_never(retry_count, max_retries) == FALSE

\* Line 219, negated: no attempt is left after this one.
LastAttempt(retry_count, max_retries) == ~(retry_count < max_retries - 1)

\* One iteration of the loop (lines 194-245): execute_command, then return True,
\* or notify, sleep and count, or notify and return False.
RetryIteration ==
    LET r == fn_result[1]
        ok == fn_input.results[Attempts(r.log) + 1]
        notified == IF fn_input.notifier THEN <<"send_failure">> ELSE <<>>
    IN  /\ r.returned = "none"
        /\ r.retry_count < fn_input.max_retries
        /\ fn_result' =
              IF ok
              THEN <<[r EXCEPT !.log = Append(@, "run_ok"), !.returned = "true"]>>
              ELSE IF LastAttempt(r.retry_count, fn_input.max_retries)
              THEN <<[r EXCEPT !.log = Append(@, "run_failed") \o notified,
                               !.returned = "false"]>>
              ELSE <<[r EXCEPT !.log = (Append(@, "run_failed") \o notified) \o <<"sleep">>,
                               !.retry_count = @ + 1]>>
        /\ UNCHANGED <<fn_input, fn_frame>>

\* Line 247: the loop condition is false, return False.
RetryLoopExit ==
    LET r == fn_result[1]
    IN  /\ r.returned = "none"
        /\ ~(r.retry_count < fn_input.max_retries)
        /\ fn_result' = <<[r EXCEPT !.returned = "false"]>>
        /\ UNCHANGED <<fn_input, fn_frame>>

RetryNext ==
    \/ RetryIteration
    \/ RetryLoopExit

RetrySpec == RetryInit /\ [][RetryNext]_vars

\* The interpreter keeps running the loop while it has not returned.
RetryLiveSpec == RetrySpec /\ WF_vars(RetryNext)

RetryBounded ==
    LET r == fn_result[1]
        runs_made == { k \in DOMAIN r.log : r.log[k] \in {"run_ok", "run_failed"} }
    IN  /\ Attempts(r.log) <= fn_input.max_retries
        /\ \A k \in runs_made :
              r.log[k] = "run_ok" => /\ r.returned = "true"
                                     /\ \A j \in runs_made : j <= k
        /\ r.returned = "true" => \E k \in runs_made : r.log[k] = "run_ok"
        /\ r.returned = "false" =>
              /\ Attempts(r.log) = fn_input.max_retries
              /\ \A k \in runs_made : r.log[k] = "run_failed"
        /\ \A k \in DOMAIN r.log :
              r.log[k] = "sleep" =>
                  /\ \E j \in runs_made : j < k
                  /\ r.returned # "none" => \E j \in runs_made : j > k
        /\ r.returned # "none" =>
              Sleeps(r.log) = IF Attempts(r.log) = 0 THEN 0 ELSE Attempts(r.log) - 1

C34_RunningWhileExecuting ==
    [][(pc = "rename" /\ pc' # "idle" /\ disk' # disk) =>
         IF cont = "exit"
         THEN disk'[StateFile].metadata.workflow_status \in {"success", "failed"}
         ELSE disk'[StateFile].metadata.workflow_status = "running"]_vars

\* ---- the failure count and the snapshot
FailedOnDisk ==
    { i \in 1..Len(disk[StateFile].tasks) : disk[StateFile].tasks[i].status = "failed" }

\* C35 -- when a fresh run returns and its final save_state wrote the file, the
\* number of tasks with status failed in the snapshot equals the failure count
\* the run returns, task lists with a missing or unregistered type included.
C35_FailureCountMatchesSnapshot ==
    (pc = "exit" /\ mode = "fresh" /\ ~stale) =>
        /\ StateFile \in GlobStateFiles(disk)
        /\ Cardinality(FailedOnDisk) = Len(failed_tasks)

\* ---- what a final status of success says
EnabledTasks == { i \in 1..Len(tasks_config) : tasks_config[i].enabled }

\* C36 -- when a run in any mode returns and the snapshot its final save wrote
\* has workflow_status success, every enabled task of the task list has status
\* success in that snapshot.
C36_SuccessMeansAllRan ==
    (/\ pc = "exit"
     /\ ~stale
     /\ StateFile \in GlobStateFiles(disk)
     /\ disk[StateFile].metadata.workflow_status = "success") =>
        \A i \in EnabledTasks : disk[StateFile].tasks[i].status = "success"

\* ---- TaskStates and task specifications
\* The engine records a transition of the TaskState at position i.
Transition(i) ==
    /\ pc \in {"loop", "exec"}
    /\ current_state' # NoState
    /\ i \in 1..Len(current_state.tasks)
    /\ current_state'.tasks[i] # current_state.tasks[i]

\* C37 -- whenever the engine records a transition for the task at position i of
\* the task list, the TaskState it changes has the name of that task, in every
\* mode, a resume with force after the task list changed included.
C37_AlignedByName ==
    [][\A i \in 1..NTasks :
          Transition(i) => current_state.tasks[i].name = TaskName(tasks_config[i], i)]_vars

\* ---- exported_context of a task that is not successful
NoStaleExports(state) ==
    \A i \in 1..Len(state.tasks) :
        state.tasks[i].status \in {"pending", "running", "failed"} =>
            state.tasks[i].exported_context = EmptyDict

\* C38 -- in every snapshot on disk a task whose status is pending, running or
\* failed has an empty exported_context, a task that succeeded with exports in
\* an earlier run and is executed again in a resumed run included.
C38_NoStaleExports ==
    \A f \in GlobStateFiles(disk) : IsSnapshot(disk[f]) => NoStaleExports(disk[f])

\* ---- release_lock after a refused acquire_lock, and a holder that died
\* Process p, refused while another process holds the lock, is in release_lock
\* and that process still holds the lock.
ReleasingAfterRefusal(p) ==
    /\ ppc[p] = "unlocked"
    /\ ~last_exit[p].acquired
    /\ lock_file # 0
    /\ flock_holder[lock_file] \notin {0, p}

\* C39 -- when acquire_lock returned False for a process because another holds
\* the lock, a later release_lock of that process leaves the lock file in place
\* and the holder the holder, so that no other process acquires the lock before
\* the holder releases it.
C39_RefusedReleaseHasNoEffect ==
    [][\A p \in Procs :
          (ReleasingAfterRefusal(p) /\ ppc'[p] # ppc[p]) =>
              /\ lock_file' = lock_file
              /\ flock_holder'[lock_file] = flock_holder[lock_file]]_vars

\* Process q held the lock and died without release_lock.
DiedHolding(q) ==
    /\ ppc[q] = "start"
    /\ last_exit[q].how \in {"killed", "interrupt"}
    /\ last_exit[q].acquired
    /\ ~last_exit[q].released

\* Process p, alone, calls acquire_lock on the lock file a dead holder left.
AloneAfterDeadHolder(p) ==
    /\ ppc[p] = "opened"
    /\ lock_fd[p] = lock_file
    /\ \A q \in Procs \ {p} : ppc[q] = "start"
    /\ \E q \in Procs \ {p} : DiedHolding(q)

====
